---- MODULE Spec2Model ----
(***************************************************************************)
(* State-machine model of the sun-simulation page (src/src/main.js).       *)
(*                                                                         *)
(* Units.  JavaScript numbers are modelled by integers in fixed units:     *)
(*   time       1 tick = 0.1 s                                             *)
(*   length     1 scene unit                                               *)
(*   velocity   scene units per tick                                       *)
(*   opacity    thousandths (1000 = 1.0)                                   *)
(*   angles     1e-5 rad                                                   *)
(*   controls   1e-4 of the control's unit; colour channels in tenths of   *)
(*              a 0..255 channel step                                      *)
(* The inputs drawn for Math.random() are chosen so that every quotient    *)
(* the code computes on them is exact in these units.                      *)
(***************************************************************************)
EXTENDS Integers, Sequences, FiniteSets, TLC

(***************************************************************************)
(* Program constants                                                       *)
(***************************************************************************)
\* main.js:278  const starFieldRadius = 500
starFieldRadius == 500
\* main.js:295  const shootingStarSpeed = 250 (per second) = 25 per tick
shootingStarSpeed == 25
\* main.js:297  const shootingStarLife = 2.5 (seconds) = 25 ticks
shootingStarLife == 25

(***************************************************************************)
(* Bounds of the model                                                     *)
(***************************************************************************)
\* Capacity of a trail history.  main.js:298 sets trailLength = 100; the
\* model runs the same code with a small capacity so that a trail fills up
\* and is trimmed within MaxFrames frames.
trailLength == 3
\* Size of the shooting-star pool (main.js:294 builds numShootingStars = 10
\* stars; every star is updated by the same code, independently).
NumStars == 1
\* Number of rows of planetsData that are built into the modelled scene.
NumPlanets == 2
\* Number of animate invocations in a run.
MaxFrames == 5
\* Number of control-panel changes in a run.
MaxControlChanges == 2
\* resize events in a row at one window size
MaxRepeats == 2
\* data chunks of a response body that downloadFile is seen through
MaxChunks == 2
\* clicks on the converter's download button in a run
MaxClicks == 3

(***************************************************************************)
(* State                                                                   *)
(***************************************************************************)
VARIABLES
    \* the page's environment, fixed for a run
    version,            \* which revision of main.js the page runs
    webgl,              \* whether new THREE.WebGLRenderer() succeeds
    loadingPresent,     \* whether document.getElementById('loading') finds an element
    missing,            \* texture files that are absent from textures/
    readyState,         \* document.readyState when the script is evaluated
    reusesAttribute,    \* whether the installed three.js writes setFromPoints into an
                        \* existing position attribute (newer releases) or replaces it
    window,             \* [innerWidth, innerHeight, devicePixelRatio]
    \* startup
    phase,              \* "loading" before initThreeJS has run, then "running" or "failed"
    sunSimulationLoaded,
    sunSimulationError,
    loadingDiv,         \* "none" | "shown" | "removed" | "error"
    loopStarted,        \* a requestAnimationFrame(animate) callback is pending
    resizeListener,     \* the resize listener is registered
    pending,            \* callbacks the script registered that have not run yet
    page,               \* what the runs of initThreeJS have added to the page, see NoPage
    loadingText,        \* what the loading element displays: "none" | "Loading" | an error
    \* frame clock
    now,                \* performance.now(), in ticks
    frames,             \* animate invocations so far
    \* animated objects
    sunRotation, coronaRotation, starsRotation, uTime,
    planets,            \* planet -> [angle, rotationY]
    shootingStars,      \* star -> record, see NewStar
    resetInFrame,       \* stars that resetShootingStar was called on in the last frame
    trimmedInFrame,     \* stars whose trail history was shifted in the last frame
    lastDelta,          \* deltaTime of the last frame
    \* rendering
    material,           \* scene object -> the material it references
    texture,            \* texture file -> "unrequested" | "pending" | "loaded" | "failed"
    background,         \* what scene.background holds: "Color" | "CubeTexture"
    presented,          \* what the last frame put on screen: "nothing" | "bloom" | "direct"
    lastFault,          \* whether the render pipeline raised in the last frame
    faulted,            \* whether the render pipeline has raised in some frame
    uncaught,           \* exceptions that escaped a frame or an event callback
    camera,             \* [aspect |-> <<w, h>>]  (aspect kept as the ratio w : h)
    rendererSize, pixelRatio, composerSize, bloomResolution,
    repeats,            \* resize events in a row that found the window size unchanged
    \* control panel
    params,             \* the parameter store: control -> value
    bound,              \* control -> value of the property its callback writes
    coronaScale,        \* corona.scale (one value for x, y and z)
    geometry,           \* "sun" | "corona" -> the geometry attached to the mesh
    disposals,          \* geometry id -> number of dispose() calls on it
    changes,            \* control changes so far
    \* the asset tools, which run apart from the page
    download,           \* one call of downloadFile (download_assets.js), see NoDownload
    cubemap             \* the converter page (cubemap_generator.html), see NoCubemap

\* the asset tools' state: the page never reads or writes it
toolVars == <<download, cubemap>>
envVars == <<version, webgl, loadingPresent, missing, readyState, reusesAttribute, toolVars>>
startVars == <<phase, sunSimulationLoaded, sunSimulationError, loadingDiv,
               loopStarted, resizeListener, pending, page, loadingText>>
frameVars == <<now, frames, sunRotation, coronaRotation, starsRotation, uTime,
               planets, shootingStars, resetInFrame, trimmedInFrame, lastDelta,
               presented, lastFault, faulted>>
assetVars == <<material, texture, background>>
sizeVars == <<window, camera, rendererSize, pixelRatio, composerSize,
              bloomResolution, repeats>>
panelVars == <<params, bound, coronaScale, geometry, disposals, changes>>
vars == <<envVars, startVars, frameVars, assetVars, sizeVars, panelVars, uncaught>>
\* everything the simulation page owns
pageVars == <<version, webgl, loadingPresent, missing, readyState, reusesAttribute,
              startVars, frameVars, assetVars, sizeVars, panelVars, uncaught>>

Stars == 1..NumStars
Planets == 1..NumPlanets

(***************************************************************************)
(* Vectors (THREE.Vector3)                                                 *)
(***************************************************************************)
VAdd(a, b) == <<a[1] + b[1], a[2] + b[2], a[3] + b[3]>>
VSub(a, b) == <<a[1] - b[1], a[2] - b[2], a[3] - b[3]>>
Dot(a, b) == a[1] * b[1] + a[2] * b[2] + a[3] * b[3]
\* Math.sqrt, rounded down: the largest r in lo..hi with r * r <= n
RECURSIVE Isqrt(_, _, _)
Isqrt(n, lo, hi) ==
    IF lo >= hi THEN lo
    ELSE LET mid == (lo + hi + 1) \div 2
         IN  IF mid * mid <= n THEN Isqrt(n, mid, hi) ELSE Isqrt(n, lo, mid - 1)
\* Vector3.length()
Length(v) == Isqrt(Dot(v, v), 0, 4 * starFieldRadius)
\* v.normalize().multiplyScalar(k)
NormalizeTimes(v, k) ==
    LET len == Length(v)
    IN  <<(v[1] * k) \div len, (v[2] * k) \div len, (v[3] * k) \div len>>
\* p.addScaledVector(v, dt)
AddScaledVector(p, v, dt) == <<p[1] + v[1] * dt, p[2] + v[2] * dt, p[3] + v[3] * dt>>

(***************************************************************************)
(* Shooting stars                                                          *)
(***************************************************************************)
\* The values Math.random() returns, in hundredths (0 <= r < 100).  One draw
\* is the five values resetShootingStar consumes, in the order it reads them:
\* startY, startZ, targetY, targetZ, life variation.
ResetDraws == { <<50, 50, 85, 50, 50>>, <<95, 50, 5, 50, 0>> }

\* (Math.random() - 0.5) * 2 * starFieldRadius
RandCoord(r) == ((r - 50) * 2 * starFieldRadius) \div 100

\* The clock deltas a frame can see: two frames within one timer tick, a
\* regular frame, and a frame after the page was paused.
Deltas == {0, 10, 30}

\* -starFieldRadius * 1.2 and starFieldRadius * 1.2
StartX == -((starFieldRadius * 12) \div 10)
TargetX == (starFieldRadius * 12) \div 10
\* starFieldRadius * 1.5
BoxLimit == (starFieldRadius * 15) \div 10

\* createShootingStar, before its call of resetShootingStar
NewStar ==
    [ position |-> <<0, 0, 0>>, originalPosition |-> <<0, 0, 0>>,
      velocity |-> <<0, 0, 0>>, life |-> 0, maxLife |-> 0,
      opacity |-> 1000,
      trailPositions |-> <<>>, trailGeometry |-> <<>>, trailAlpha |-> <<>>,
      trailOpacity |-> 800,
      \* history: the positions after each update since the last reset
      flown |-> <<>> ]

\* starObj.maxLife = shootingStarLife * (0.8 + Math.random() * 0.4)
MaxLifeOf(r) == (shootingStarLife * (80 + (r * 4) \div 10)) \div 100

\* geometry.setFromPoints(points) on a geometry whose position attribute
\* holds `buffer`: a three.js that reuses the attribute overwrites its first
\* Len(points) points and keeps the rest, an older one replaces the attribute
SetFromPoints(buffer, points) ==
    IF reusesAttribute
    THEN [ k \in 1..Len(buffer) |-> IF k <= Len(points) THEN points[k] ELSE buffer[k] ]
    ELSE points

ResetShootingStar(s, d) ==
    LET start == <<StartX, RandCoord(d[1]), RandCoord(d[2])>>
        target == <<TargetX, RandCoord(d[3]), RandCoord(d[4])>>
    IN  [ s EXCEPT !.position = start,
                   !.originalPosition = start,
                   !.velocity = NormalizeTimes(VSub(target, start), shootingStarSpeed),
                   !.life = 0,
                   !.maxLife = MaxLifeOf(d[5]),
                   !.opacity = 1000,
                   !.trailPositions = <<>>,
                   !.trailGeometry = SetFromPoints(s.trailGeometry, <<>>),
                   !.trailOpacity = 0,
                   !.flown = <<>> ]

\* a star that ages by one tick per frame instead of by the clock delta
AdvanceLifePerFrame(life, dt) == life + 1

\* starObj.life += deltaTime
AdvanceLife(life, dt) == life + dt

\* a push that never drops the oldest point
PushTrailUntrimmed(trail, p) == Append(trail, p)

\* trailPositions.push(position.clone()); if (length > trailLength) shift()
PushTrail(trail, p) ==
    LET pushed == Append(trail, p)
    IN  IF Len(pushed) > trailLength THEN Tail(pushed) ELSE pushed

\* 1.0 - life / maxLife
Fade(s) == 1000 - (s.life * 1000) \div s.maxLife

\* the colour attribute's alpha of trail point i (0-based): (i / trailLength) * fade
TrailAlpha(s) ==
    [ i \in 1..Len(s.trailPositions) |-> ((i - 1) * Fade(s)) \div trailLength ]

OutOfView(p) ==
    \/ p[1] > BoxLimit \/ p[1] < -BoxLimit
    \/ p[2] > BoxLimit \/ p[2] < -BoxLimit
    \/ p[3] > BoxLimit \/ p[3] < -BoxLimit

\* a reset test that already fires when life reaches maxLife
ShouldResetAtMaxLife(s) == s.life >= s.maxLife \/ OutOfView(s.position)

\* a reset test that looks at the position only
ShouldResetOutOfView(s) == OutOfView(s.position)

\* the condition of the reset at the end of a star's update
ShouldReset(s) == s.life > s.maxLife \/ OutOfView(s.position)

\* the update of one star up to the reset test
MoveStar(s, dt) ==
    LET moved == [ s EXCEPT !.position = AddScaledVector(s.position, s.velocity, dt),
                            !.life = AdvanceLife(s.life, dt),
                            !.flown = Append(s.flown, AddScaledVector(s.position, s.velocity, dt)) ]
        trailed == [ moved EXCEPT
                        !.trailPositions = PushTrail(moved.trailPositions, moved.position) ]
    IN  [ trailed EXCEPT !.trailGeometry = trailed.trailPositions,
                         !.trailAlpha = TrailAlpha(trailed),
                         !.opacity = Fade(trailed) ]

\* the body of shootingStars.forEach in animate, for one star
UpdateStar(s, dt, d) ==
    LET moved == MoveStar(s, dt)
    IN  IF ShouldReset(moved) THEN ResetShootingStar(moved, d) ELSE moved

(***************************************************************************)
(* Planets and textures                                                    *)
(***************************************************************************)
\* planetsData: orbitalRadius and eccentricity in 1e-4, orbitalSpeed in
\* 1e-5 rad per tick, rotationSpeed in 1e-5 rad per frame
planetsData == <<
    [name |-> "Mercury", orbitalRadius |-> 15000, orbitalSpeed |-> 480, eccentricity |-> 2050,
     rotationSpeed |-> 500, texture |-> "textures/mercury.jpg"],
    [name |-> "Venus", orbitalRadius |-> 20000, orbitalSpeed |-> 350, eccentricity |-> 70,
     rotationSpeed |-> 300, texture |-> "textures/venus_surface.jpg"],
    [name |-> "Earth", orbitalRadius |-> 28000, orbitalSpeed |-> 298, eccentricity |-> 170,
     rotationSpeed |-> 2000, texture |-> "textures/earth.jpg"],
    [name |-> "Mars", orbitalRadius |-> 35000, orbitalSpeed |-> 240, eccentricity |-> 940,
     rotationSpeed |-> 1500, texture |-> "textures/mars.jpg"],
    [name |-> "Jupiter", orbitalRadius |-> 60000, orbitalSpeed |-> 130, eccentricity |-> 490,
     rotationSpeed |-> 3000, texture |-> "textures/jupiter.jpg"],
    [name |-> "Saturn", orbitalRadius |-> 75000, orbitalSpeed |-> 90, eccentricity |-> 570,
     rotationSpeed |-> 2800, texture |-> "textures/saturn.jpg"],
    [name |-> "Uranus", orbitalRadius |-> 90000, orbitalSpeed |-> 60, eccentricity |-> 460,
     rotationSpeed |-> 1000, texture |-> "textures/uranus.jpg"],
    [name |-> "Neptune", orbitalRadius |-> 105000, orbitalSpeed |-> 50, eccentricity |-> 110,
     rotationSpeed |-> 900, texture |-> "textures/neptune.jpg"] >>

Skybox == "textures/skybox"
PlanetTextures == { planetsData[p].texture : p \in Planets }
Textures == PlanetTextures \cup {Skybox}

Versions == {"current", "earlier"}

\* a loader that raises at the call when the file is absent
LoadThrowsWhenAbsent(file, absent) == file \in absent

\* textureLoader.load(url) and cubeTextureLoader.load(urls) return their
\* texture object at once and report a failed fetch later, through the
\* loader's error callback: the call itself does not raise.
LoadThrows(file, absent) == FALSE

\* the material the scene builder gives a planet: the textured one, or the
\* flat-colour one of the catch block around textureLoader.load
PlanetMaterial(p, absent) ==
    IF LoadThrows(planetsData[p].texture, absent) THEN "fallback" ELSE "textured"

\* the objects initThreeJS adds to the scene that carry a material
SceneObjects ==
    {<<"sun", 0>>, <<"corona", 0>>, <<"stars", 0>>}
        \cup { <<"planet", p>> : p \in Planets }
        \cup { <<"shootingStar", i>> : i \in Stars }
        \cup { <<"trail", i>> : i \in Stars }

\* the material each object is built with
BuiltMaterials(absent) ==
    [ o \in SceneObjects |->
        IF o[1] = "planet" THEN PlanetMaterial(o[2], absent)
        ELSE IF o[1] = "sun" THEN "sunMaterial"
        ELSE IF o[1] = "corona" THEN "coronaMaterial"
        ELSE IF o[1] = "stars" THEN "starsMaterial"
        ELSE IF o[1] = "shootingStar" THEN "material"
        ELSE "trailMaterial" ]

\* the textures initThreeJS requests
Requested(v) == IF v = "current" THEN Textures ELSE PlanetTextures

(***************************************************************************)
(* Control panel                                                           *)
(***************************************************************************)
\* gui.add(params, name, min, max, step): the numeric controls, in 1e-4
NumericControls ==
    [ octaves               |-> [min |-> 10000, max |-> 100000, step |-> 10000],
      lacunarity            |-> [min |-> 10000, max |-> 30000,  step |-> 1000],
      gain                  |-> [min |-> 1000,  max |-> 9000,   step |-> 500],
      rotationSpeed         |-> [min |-> 0,     max |-> 100,    step |-> 5],
      sunspotIntensity      |-> [min |-> 0,     max |-> 10000,  step |-> 500],
      coronaSize            |-> [min |-> 11000, max |-> 20000,  step |-> 500],
      coronaIntensity       |-> [min |-> 1000,  max |-> 20000,  step |-> 1000],
      pulsationSpeed        |-> [min |-> 0,     max |-> 20000,  step |-> 1000],
      bloomStrength         |-> [min |-> 0,     max |-> 30000,  step |-> 1000],
      bloomRadius           |-> [min |-> 0,     max |-> 10000,  step |-> 100],
      bloomThreshold        |-> [min |-> 0,     max |-> 10000,  step |-> 100],
      cameraDistance        |-> [min |-> 20000, max |-> 100000, step |-> 1000],
      ambientLightIntensity |-> [min |-> 0,     max |-> 10000,  step |-> 100],
      pointLightIntensity   |-> [min |-> 0,     max |-> 50000,  step |-> 1000] ]

NumericNames == DOMAIN NumericControls
ColourNames == {"sunBaseColor", "sunSpotColor", "coronaColor", "backgroundIntensity"}
SegmentNames == {"sunSegments", "coronaSegments"}
ControlNames == NumericNames \cup ColourNames \cup SegmentNames

\* the values of the properties the controls are bound to, as initThreeJS
\* builds them (uniforms, bloom pass, camera, lights, scene.background colour)
InitialBound(v) ==
    [ octaves               |-> 60000,
      lacunarity            |-> 20000,
      gain                  |-> 5000,
      rotationSpeed         |-> 10,
      sunspotIntensity      |-> 5000,
      coronaSize            |-> 12000,
      coronaIntensity       |-> 10000,
      pulsationSpeed        |-> 5000,
      bloomStrength         |-> 30000,
      bloomRadius           |-> 10000,
      bloomThreshold        |-> 500,
      cameraDistance        |-> 50000,
      ambientLightIntensity |-> IF v = "current" THEN 1000 ELSE 10000,
      pointLightIntensity   |-> IF v = "current" THEN 20000 ELSE 100000,
      sunBaseColor          |-> <<10000, 6000, 0>>,
      sunSpotColor          |-> <<4000, 1000, 0>>,
      coronaColor           |-> <<10000, 4000, 0>>,
      backgroundIntensity   |-> <<392, 392, 1255>> ]

\* uniform.value.x * 255, in tenths of a channel step
ToParamColour(u) == <<(u[1] * 2550) \div 10000, (u[2] * 2550) \div 10000, (u[3] * 2550) \div 10000>>
\* a colour callback that hands the channels on undivided
ToBoundColourUnscaled(c) == c

\* value[i] / 255
ToBoundColour(c) == <<(c[1] * 10000) \div 2550, (c[2] * 10000) \div 2550, (c[3] * 10000) \div 2550>>

\* const params = { ... }
InitialParams(v) ==
    [ c \in ControlNames |->
        IF c \in NumericNames THEN InitialBound(v)[c]
        ELSE IF c = "backgroundIntensity" THEN <<0, 0, 0>>
        ELSE IF c \in ColourNames THEN ToParamColour(InitialBound(v)[c])
        ELSE IF c = "sunSegments" THEN 128
        ELSE 64 ]

\* the sphere geometries initThreeJS builds: radius in 1e-4
InitialGeometry ==
    [ sun    |-> [id |-> <<"sun", 0>>, radius |-> 10000, segments |-> 128],
      corona |-> [id |-> <<"corona", 0>>, radius |-> 12000, segments |-> 64] ]

\* g.dispose()
Dispose(d, g) == [ d EXCEPT ![g] = @ + 1 ]
\* new THREE.SphereGeometry(...): a geometry nobody has disposed of
Created(d, g) == [ x \in DOMAIN d \cup {g} |-> IF x \in DOMAIN d THEN d[x] ELSE 0 ]

\* the values a control hands to its onChange callback
ControlValues(c) ==
    IF c \in NumericNames THEN {NumericControls[c].min, NumericControls[c].max}
    ELSE IF c \in ColourNames THEN {<<0, 0, 0>>, <<2550, 2550, 2550>>}
    ELSE IF c = "sunSegments" THEN {32, 64, 128, 256}
    ELSE {16, 32, 64, 128}

\* whether the onChange callback of control c raises: scene.background.setRGB
\* exists on a THREE.Color only
CallbackThrows(c, bg) == c = "backgroundIntensity" /\ bg # "Color"

\* a control is set to v: the panel stores v in params, then calls onChange(v)
ControlChange(c, v) ==
    /\ loopStarted
    /\ changes < MaxControlChanges
    /\ changes' = changes + 1
    /\ params' = [ params EXCEPT ![c] = v ]
    /\ uncaught' = IF CallbackThrows(c, background) THEN uncaught \cup {c} ELSE uncaught
    /\ bound' = IF c \in NumericNames THEN [ bound EXCEPT ![c] = v ]
                ELSE IF c \in ColourNames /\ ~CallbackThrows(c, background)
                     THEN [ bound EXCEPT ![c] = ToBoundColour(v) ]
                ELSE bound
    /\ coronaScale' = IF c = "coronaSize" THEN v ELSE coronaScale
    /\ geometry' =
          IF c = "sunSegments"
          THEN [ geometry EXCEPT
                   !.sun = [id |-> <<"sun", changes + 1>>, radius |-> 10000, segments |-> v] ]
          ELSE IF c = "coronaSegments"
          THEN [ geometry EXCEPT
                   !.corona = [id |-> <<"corona", changes + 1>>,
                               radius |-> params'.coronaSize, segments |-> v] ]
          ELSE geometry
    /\ disposals' =
          IF c = "sunSegments"
          THEN Created(Dispose(disposals, InitialGeometry.sun.id), <<"sun", changes + 1>>)
          ELSE IF c = "coronaSegments"
          THEN Created(Dispose(disposals, InitialGeometry.corona.id), <<"corona", changes + 1>>)
          ELSE disposals
    /\ UNCHANGED <<envVars, startVars, frameVars, assetVars, sizeVars>>

(***************************************************************************)
(* The frame: the body of animate                                          *)
(***************************************************************************)
\* composer.render(): raises when the render pipeline does (fault), whatever
\* state the textures are in
RenderThrows(fault, tex) == fault

\* what the frame leaves on screen
Presented(threw) == IF threw THEN "nothing" ELSE "bloom"

\* a render that swaps in a dark material for the planets and does not put
\* the saved one back
RenderedDarkened(mat, threw) ==
    [ o \in DOMAIN mat |-> IF o[1] = "planet" THEN "darkMaterial" ELSE mat[o] ]

\* the materials after composer.render(): the render pass and the bloom pass
\* draw the scene with the materials the objects reference and assign none
Rendered(mat, threw) == mat

\* Angles are in 1e-5 rad; cosines, sines and square roots in 1e-4.
HalfPi == 157080
Pi == 314159
TwoPi == 628319

\* the product of two numbers in 1e-4, rounded towards zero
Times(a, b) == IF a * b >= 0 THEN (a * b) \div 10000 ELSE -((-(a * b)) \div 10000)

\* sin x for 0 <= x <= pi/2, by its series in x * x
SinAcute(x) ==
    LET x4 == x \div 10
        x2 == Times(x4, x4)
        t4 == 10000 - x2 \div 72
        t3 == 10000 - Times(x2, t4) \div 42
        t2 == 10000 - Times(x2, t3) \div 20
        t1 == 10000 - Times(x2, t2) \div 6
    IN  Times(x4, t1)

\* cos x for 0 <= x <= pi/2, by its series in x * x
CosAcute(x) ==
    LET x4 == x \div 10
        x2 == Times(x4, x4)
        t4 == 10000 - x2 \div 56
        t3 == 10000 - Times(x2, t4) \div 30
        t2 == 10000 - Times(x2, t3) \div 12
        t1 == 10000 - Times(x2, t2) \div 2
    IN  t1

\* Math.sin and Math.cos
Sin(angle) ==
    LET r == angle % TwoPi
    IN  IF r <= HalfPi THEN SinAcute(r)
        ELSE IF r <= Pi THEN SinAcute(Pi - r)
        ELSE IF r <= Pi + HalfPi THEN -SinAcute(r - Pi)
        ELSE -SinAcute(TwoPi - r)
Cos(angle) ==
    LET r == angle % TwoPi
    IN  IF r <= HalfPi THEN CosAcute(r)
        ELSE IF r <= Pi THEN -CosAcute(Pi - r)
        ELSE IF r <= Pi + HalfPi THEN -CosAcute(r - Pi)
        ELSE CosAcute(TwoPi - r)

\* data.name.charCodeAt(0), row by row of planetsData
planetSeed == <<77, 86, 69, 77, 74, 83, 85, 78>>
\* (planetSeed % 20) * 0.01
TiltAngle(p) == (planetSeed[p] % 20) * 1000

\* b = a * Math.sqrt(1 - e * e)
SemiMinor(a, e) == Times(a, Isqrt(100000000 - e * e, 0, 10000))

\* an orbit whose z uses the semi-major axis, as a circle does
EllipseOnMajorAxis(a, e, tilt, angle) ==
    << Times(a, Cos(angle)),
       (Times(Times(Sin(angle), Sin(tilt)), a) * 5) \div 100,
       Times(a, Sin(angle)) >>

\* the position the elliptical updater sets: (a cos, sin sin(tilt) a 0.05, b sin)
Ellipse(a, e, tilt, angle) ==
    << Times(a, Cos(angle)),
       (Times(Times(Sin(angle), Sin(tilt)), a) * 5) \div 100,
       Times(SemiMinor(a, e), Sin(angle)) >>

\* the position the circular updater of the earlier revision leaves: x and z
\* are assigned, y is kept
Circle(a, y, angle) ==
    << Times(Cos(angle), a), y, Times(Sin(angle), a) >>

\* an updater that starts every orbit a quarter turn late
OrbitPositionLate(pos, p, t) ==
    Ellipse(planetsData[p].orbitalRadius, planetsData[p].eccentricity, TiltAngle(p),
            t * planetsData[p].orbitalSpeed + HalfPi)

\* the position planets.forEach gives planet p at time t
OrbitPosition(pos, p, t) ==
    IF version = "current"
    THEN Ellipse(planetsData[p].orbitalRadius, planetsData[p].eccentricity, TiltAngle(p),
                 t * planetsData[p].orbitalSpeed)
    ELSE Circle(planetsData[p].orbitalRadius, pos[2], t * planetsData[p].orbitalSpeed)

\* planet.position.set(data.orbitalRadius, 0, 0)
BuiltPosition(p) == <<planetsData[p].orbitalRadius, 0, 0>>

\* planets.forEach in animate: the orbit angle, the position and the
\* self-rotation
UpdatePlanet(pl, p, t) ==
    [ angle |-> t * planetsData[p].orbitalSpeed,
      position |-> OrbitPosition(pl.position, p, t),
      rotationY |-> pl.rotationY + planetsData[p].rotationSpeed ]

\* the animated objects as the scene builder leaves them
Built ==
    [ frames |-> 0,
      sunRotation |-> [ x |-> 0, y |-> 0 ],
      coronaRotation |-> [ y |-> 0, z |-> 0 ],
      starsRotation |-> 0,
      planets |-> [ p \in Planets |-> [ angle |-> 0, position |-> BuiltPosition(p), rotationY |-> 0 ] ] ]

\* the animated objects as the last frame left them
Animated ==
    [ frames |-> frames,
      sunRotation |-> sunRotation,
      coronaRotation |-> coronaRotation,
      starsRotation |-> starsRotation,
      planets |-> planets ]

\* an animate that asks for the next frame as its last statement: a frame
\* that raises asks for none
RequestsFrameLast(threw) == ~threw

\* whether an invocation of animate leaves a callback pending:
\* requestAnimationFrame(animate) is its first statement, so the request is
\* made whether or not a later statement raises
RequestsFrame(threw) == TRUE

\* One invocation of animate at time t with clock delta dt, on the objects
\* `prev` and the stars `pool`; d gives each star the random values its
\* reset would read.
FrameBody(t, dt, prev, pool, d, fault, tex, mat) ==
    /\ loopStarted' = RequestsFrame(RenderThrows(fault, tex))
    /\ now' = t
    /\ frames' = prev.frames + 1
    /\ sunRotation' = [ x |-> prev.sunRotation.x + 100, y |-> prev.sunRotation.y + 500 ]
    /\ coronaRotation' = [ y |-> prev.coronaRotation.y - 200, z |-> prev.coronaRotation.z + 100 ]
    /\ uTime' = [ sun |-> t, corona |-> t ]
    /\ starsRotation' = prev.starsRotation + 10
    /\ lastDelta' = dt
    /\ shootingStars' = [ i \in Stars |-> UpdateStar(pool[i], dt, d[i]) ]
    /\ resetInFrame' = { i \in Stars : ShouldReset(MoveStar(pool[i], dt)) }
    /\ trimmedInFrame' = { i \in Stars : Len(pool[i].trailPositions) + 1 > trailLength }
    /\ planets' = [ p \in Planets |-> UpdatePlanet(prev.planets[p], p, t) ]
    /\ presented' = Presented(RenderThrows(fault, tex))
    /\ lastFault' = fault
    /\ faulted' = (faulted \/ fault)
    /\ material' = Rendered(mat, RenderThrows(fault, tex))

\* a frame that also re-reads the device pixel ratio, as a resize does
AnimateResizing(dt, fault) ==
    /\ loopStarted
    /\ frames < MaxFrames
    /\ \E d \in [Stars -> ResetDraws] : FrameBody(now + dt, dt, Animated, shootingStars, d, fault, texture, material)
    /\ uncaught' = IF RenderThrows(fault, texture) THEN uncaught \cup {"animate"} ELSE uncaught
    /\ pixelRatio' = window.devicePixelRatio
    /\ UNCHANGED <<window, camera, rendererSize, composerSize, bloomResolution, repeats>>
    /\ UNCHANGED <<envVars, texture, background, panelVars>>
    /\ UNCHANGED <<phase, sunSimulationLoaded, sunSimulationError, loadingDiv, resizeListener,
                   pending, page, loadingText>>

Animate(dt, fault) ==
    /\ loopStarted
    /\ frames < MaxFrames
    /\ \E d \in [Stars -> ResetDraws] : FrameBody(now + dt, dt, Animated, shootingStars, d, fault, texture, material)
    /\ uncaught' = IF RenderThrows(fault, texture) THEN uncaught \cup {"animate"} ELSE uncaught
    /\ UNCHANGED <<envVars, texture, background, sizeVars, panelVars>>
    /\ UNCHANGED <<phase, sunSimulationLoaded, sunSimulationError, loadingDiv, resizeListener,
                   pending, page, loadingText>>

(***************************************************************************)
(* Startup: initThreeJS                                                    *)
(***************************************************************************)
\* ticks from the trigger of initThreeJS to performance.now() in its frame
LoadTimes == {2}

\* Math.min(window.devicePixelRatio, 2)
ClampPixelRatio(dpr) == IF dpr < 2 THEN dpr ELSE 2
\* innerWidth / innerHeight, in thousandths
Aspect(w) == (w.innerWidth * 1000) \div w.innerHeight
\* a size in device pixels at the pixel ratio set by the last resize
SizeOfScaled(w) == <<w.innerWidth * pixelRatio, w.innerHeight * pixelRatio>>

\* (window.innerWidth, window.innerHeight)
SizeOf(w) == <<w.innerWidth, w.innerHeight>>

\* the page before initThreeJS has run: runs started and runs that reached
\* their last statement, canvases appended to the body, GUI panels, resize
\* listeners and requestAnimationFrame loops
NoPage ==
    [ attempts |-> 0, completions |-> 0, canvases |-> 0, panels |-> 0,
      listeners |-> 0, loops |-> 0 ]

\* a catch block that shows no message
InitFailsSilently(error) ==
    /\ phase' = "failed"
    /\ sunSimulationError' = error
    /\ UNCHANGED <<loadingDiv, loadingText>>
    /\ UNCHANGED sunSimulationLoaded

\* the catch block of initThreeJS
InitFails(error) ==
    /\ phase' = "failed"
    /\ sunSimulationError' = error
    /\ loadingDiv' = IF loadingDiv = "shown" THEN "error" ELSE loadingDiv
    /\ loadingText' = IF loadingPresent THEN error ELSE loadingText
    /\ UNCHANGED sunSimulationLoaded

\* a removal that is not guarded by `if (loadingDiv)`
RemoveChildThrowsUnguarded(present, div) == ~present \/ div = "removed"

\* document.body.removeChild(loadingDiv), reached when the element exists:
\* it raises NotFoundError when the element is no longer a child of the body
RemoveChildThrows(present, div) == present /\ div = "removed"

\* the statements of initThreeJS after the first call of animate returned
InitCompletes ==
    /\ resizeListener' = TRUE
    /\ IF RemoveChildThrows(loadingPresent, loadingDiv)
       THEN InitFails("removeChild")
       ELSE /\ phase' = "running"
            /\ loadingDiv' = IF loadingPresent THEN "removed" ELSE "none"
            /\ sunSimulationLoaded' = TRUE
            /\ UNCHANGED <<sunSimulationError, loadingText>>

\* the scene builder, up to the first call of animate
BuildScene ==
    /\ camera' = [ aspect |-> Aspect(window) ]
    /\ rendererSize' = SizeOf(window)
    /\ pixelRatio' = ClampPixelRatio(window.devicePixelRatio)
    /\ composerSize' = SizeOf(window)
    /\ bloomResolution' = SizeOf(window)
    /\ background' = IF version = "current" THEN "CubeTexture" ELSE "Color"
    /\ texture' = [ f \in Textures |->
                      IF f \in Requested(version) THEN "pending" ELSE "unrequested" ]
    /\ bound' = InitialBound(version)
    /\ params' = InitialParams(version)
    /\ coronaScale' = 10000
    /\ geometry' = InitialGeometry
    /\ disposals' = [ g \in {InitialGeometry.sun.id, InitialGeometry.corona.id} |-> 0 ]
    /\ changes' = 0

\* One run of initThreeJS.  A run builds a scene of its own; the scene
\* variables describe the scene of the latest run that built one.
InitThreeJS ==
    /\ IF ~webgl
       THEN \* new THREE.WebGLRenderer raises: nothing has been built
            /\ InitFails("WebGLRenderer")
            /\ page' = [ page EXCEPT !.attempts = @ + 1 ]
            /\ UNCHANGED <<loopStarted, resizeListener, frameVars, assetVars, panelVars, uncaught>>
            /\ UNCHANGED <<camera, rendererSize, pixelRatio, composerSize, bloomResolution>>
       ELSE IF version = "current" /\ LoadThrows(Skybox, missing)
       THEN \* the skybox load raises: renderer, camera and sun exist
            /\ InitFails("CubeTextureLoader")
            /\ page' = [ page EXCEPT !.attempts = @ + 1, !.canvases = @ + 1 ]
            /\ camera' = [ aspect |-> Aspect(window) ]
            /\ rendererSize' = SizeOf(window)
            /\ pixelRatio' = ClampPixelRatio(window.devicePixelRatio)
            /\ UNCHANGED <<composerSize, bloomResolution>>
            /\ UNCHANGED <<loopStarted, resizeListener, frameVars, assetVars, panelVars, uncaught>>
       ELSE /\ BuildScene
            /\ \E t \in LoadTimes, d \in [Stars -> ResetDraws], fault \in BOOLEAN :
                 \* the first frame: the clock starts at its first getDelta and reports 0
                 /\ FrameBody(now + t, 0, Built,
                              [ i \in Stars |-> ResetShootingStar(NewStar, d[i]) ],
                              d, fault, texture', BuiltMaterials(missing))
                 /\ IF RenderThrows(fault, texture')
                    THEN /\ InitFails("render")
                         /\ UNCHANGED resizeListener
                         /\ page' = [ page EXCEPT !.attempts = @ + 1, !.canvases = @ + 1,
                                                  !.panels = @ + 1, !.loops = @ + 1 ]
                    ELSE /\ InitCompletes
                         /\ page' = [ page EXCEPT
                                        !.attempts = @ + 1, !.canvases = @ + 1,
                                        !.panels = @ + 1, !.loops = @ + 1,
                                        !.listeners = @ + 1,
                                        !.completions =
                                            IF RemoveChildThrows(loadingPresent, loadingDiv)
                                            THEN @ ELSE @ + 1 ]
            /\ UNCHANGED uncaught
    /\ UNCHANGED <<envVars, window, repeats>>

\* the end of the script when the document has been parsed: initThreeJS is
\* called at once and the fallback timer is set
StartImmediately ==
    /\ phase = "loading"
    /\ pending = {}
    /\ readyState # "loading"
    /\ pending' = {"timer"}
    /\ InitThreeJS

\* the end of the script while the document is still being parsed:
\* initThreeJS is registered for DOMContentLoaded and the fallback timer is set
AwaitDOMContentLoaded ==
    /\ phase = "loading"
    /\ pending = {}
    /\ readyState = "loading"
    /\ pending' = {"DOMContentLoaded", "timer"}
    /\ UNCHANGED <<envVars, phase, sunSimulationLoaded, sunSimulationError, loadingDiv,
                   loopStarted, resizeListener, page, loadingText>>
    /\ UNCHANGED <<frameVars, assetVars, sizeVars, panelVars, uncaught>>

\* the DOMContentLoaded listener: initThreeJS itself
DOMContentLoaded ==
    /\ "DOMContentLoaded" \in pending
    /\ pending' = pending \ {"DOMContentLoaded"}
    /\ InitThreeJS

\* a timer that retries after a failed run as well
RetryUnlessLoaded(loaded, error) == ~loaded

\* the test of the fallback timer's callback
Retry(loaded, error) == ~loaded /\ error = "null"

\* the callback of setTimeout(..., 1000)
FallbackTimer ==
    /\ "timer" \in pending
    /\ pending' = pending \ {"timer"}
    /\ IF Retry(sunSimulationLoaded, sunSimulationError)
       THEN InitThreeJS
       ELSE /\ UNCHANGED <<envVars, phase, sunSimulationLoaded, sunSimulationError,
                           loadingDiv, loopStarted, resizeListener, page, loadingText>>
            /\ UNCHANGED <<frameVars, assetVars, sizeVars, panelVars, uncaught>>

(***************************************************************************)
(* Events after startup                                                    *)
(***************************************************************************)
WindowStates ==
    { [innerWidth |-> 800, innerHeight |-> 600, devicePixelRatio |-> 1],
      [innerWidth |-> 1200, innerHeight |-> 600, devicePixelRatio |-> 3],
      [innerWidth |-> 400, innerHeight |-> 800, devicePixelRatio |-> 2] }
\* the window the page opens in
OpeningWindow == [innerWidth |-> 800, innerHeight |-> 600, devicePixelRatio |-> 1]

\* a listener that forgets the composer
OnResizeWithoutComposer(w) ==
    /\ camera' = [ aspect |-> Aspect(w) ]
    /\ rendererSize' = SizeOf(w)
    /\ pixelRatio' = ClampPixelRatio(w.devicePixelRatio)
    /\ bloomResolution' = SizeOf(w)
    /\ UNCHANGED composerSize

\* the resize listener
OnResize(w) ==
    /\ camera' = [ aspect |-> Aspect(w) ]
    /\ rendererSize' = SizeOf(w)
    /\ pixelRatio' = ClampPixelRatio(w.devicePixelRatio)
    /\ composerSize' = SizeOf(w)
    /\ bloomResolution' = SizeOf(w)

\* the window is resized; the listener runs when it is registered
Resize(w) ==
    /\ phase # "loading"
    /\ w # window
    /\ window' = w
    /\ repeats' = 0
    /\ IF resizeListener
       THEN OnResize(w)
       ELSE UNCHANGED <<camera, rendererSize, pixelRatio, composerSize, bloomResolution>>
    /\ UNCHANGED <<envVars, startVars, frameVars, assetVars, panelVars, uncaught>>

\* a resize event at an unchanged window size (the browser fires several
\* events for one drag); the listener runs again
ResizeAgain ==
    /\ resizeListener
    /\ repeats < MaxRepeats
    /\ repeats' = repeats + 1
    /\ OnResize(window)
    /\ UNCHANGED window
    /\ UNCHANGED <<envVars, startVars, frameVars, assetVars, panelVars, uncaught>>

\* a requested texture file arrives
TextureLoaded(f) ==
    /\ texture[f] = "pending"
    /\ f \notin missing
    /\ texture' = [ texture EXCEPT ![f] = "loaded" ]
    /\ UNCHANGED <<material, background>>
    /\ UNCHANGED <<envVars, startVars, frameVars, sizeVars, panelVars, uncaught>>

\* the fetch of a requested texture file fails; the loader logs the error
TextureFailed(f) ==
    /\ texture[f] = "pending"
    /\ f \in missing
    /\ texture' = [ texture EXCEPT ![f] = "failed" ]
    /\ UNCHANGED <<material, background>>
    /\ UNCHANGED <<envVars, startVars, frameVars, sizeVars, panelVars, uncaught>>

(***************************************************************************)
(* The asset tools: downloadFile (download_assets.js)                      *)
(***************************************************************************)
\* the state before downloadFile is called
NoDownload ==
    [ call |-> "idle",          \* "idle" | "called"
      file |-> "absent",        \* the destination path: "absent" | "old" | "empty" |
                                \* "partial" | "complete"
      stream |-> "none",        \* the write stream: "none" | "opening" | "open" |
                                \* "failed" | "closed"
      request |-> "none",       \* "none" | "sent" | "response" (headers arrived) |
                                \* "failed" | "ended" (body complete)
      status |-> 0,             \* response.statusCode
      handlers |-> FALSE,       \* the 'finish' and 'error' listeners are on the stream
      written |-> 0,            \* chunks written to the file
      unlinks |-> 0,            \* fs.unlink calls that have not completed
      promise |-> "pending",    \* "pending" | "resolved" | "rejected"
      settles |-> 0,            \* calls of resolve or reject
      crashed |-> FALSE ]       \* an 'error' event found no listener

\* the status codes a server answers with
Statuses == {200, 301, 404}

\* resolve() or reject(): the first call settles the promise
Settle(d, how) ==
    [ d EXCEPT !.promise = IF d.promise = "pending" THEN how ELSE d.promise,
               !.settles = @ + 1 ]

\* fs.unlink(destination, () => {}); reject(err)
UnlinkAndReject(d) == Settle([ d EXCEPT !.unlinks = @ + 1 ], "rejected")

\* if (response.statusCode !== 200) { reject(...); return; }
RejectStatus(d) == Settle(d, "rejected")

\* downloadFile(url, destination) up to the return of the promise: the write
\* stream starts opening the destination, which may hold an earlier file,
\* and the request is sent
DownloadFile(existing) ==
    /\ download.call = "idle"
    /\ download' = [ download EXCEPT !.call = "called", !.file = existing,
                                     !.stream = "opening", !.request = "sent" ]
    /\ UNCHANGED <<pageVars, cubemap>>

\* the open of the write stream completes: flags 'w' create the file or
\* truncate the one that is there
StreamOpens ==
    /\ ~download.crashed
    /\ download.stream = "opening"
    /\ download' = [ download EXCEPT !.stream = "open", !.file = "empty" ]
    /\ UNCHANGED <<pageVars, cubemap>>

\* the open fails (no such directory, no permission): the stream emits
\* 'error', which the listener of the 200 branch handles when it is there
StreamOpenFails ==
    /\ ~download.crashed
    /\ download.stream = "opening"
    /\ download' =
          IF download.handlers
          THEN UnlinkAndReject([ download EXCEPT !.stream = "failed" ])
          ELSE [ download EXCEPT !.stream = "failed", !.crashed = TRUE ]
    /\ UNCHANGED <<pageVars, cubemap>>

\* the callback of https.get
Response(status) ==
    /\ ~download.crashed
    /\ download.request = "sent"
    /\ download' =
          IF status # 200
          THEN RejectStatus([ download EXCEPT !.request = "response", !.status = status ])
          ELSE [ download EXCEPT !.request = "response", !.status = status,
                                 !.handlers = TRUE ]
    /\ UNCHANGED <<pageVars, cubemap>>

\* the request emits 'error' before a response arrived
RequestError ==
    /\ ~download.crashed
    /\ download.request = "sent"
    /\ download' = UnlinkAndReject([ download EXCEPT !.request = "failed" ])
    /\ UNCHANGED <<pageVars, cubemap>>

\* response.pipe(file) writes a chunk of the body
Data ==
    /\ ~download.crashed
    /\ download.request = "response" /\ download.status = 200
    /\ download.stream = "open"
    /\ download.written < MaxChunks
    /\ download' = [ download EXCEPT !.written = @ + 1, !.file = "partial" ]
    /\ UNCHANGED <<pageVars, cubemap>>

\* a write fails (disk full): the stream emits 'error'
WriteFails ==
    /\ ~download.crashed
    /\ download.request \in {"response", "ended"} /\ download.status = 200
    /\ download.stream = "open"
    /\ download' = UnlinkAndReject([ download EXCEPT !.stream = "failed" ])
    /\ UNCHANGED <<pageVars, cubemap>>

\* the body ends: pipe calls file.end(), the stream flushes what it holds
ResponseEnds ==
    /\ ~download.crashed
    /\ download.request = "response" /\ download.status = 200
    /\ download' = [ download EXCEPT !.request = "ended" ]
    /\ UNCHANGED <<pageVars, cubemap>>

\* the stream emits 'finish': file.close(); resolve()
Finish ==
    /\ ~download.crashed
    /\ download.request = "ended"
    /\ download.stream = "open"
    /\ download' = Settle([ download EXCEPT !.stream = "closed", !.file = "complete" ],
                          "resolved")
    /\ UNCHANGED <<pageVars, cubemap>>

\* a pending fs.unlink completes: it removes what is at the path (on a POSIX
\* file system also while the stream holds the file open)
UnlinkDone ==
    /\ ~download.crashed
    /\ download.unlinks > 0
    /\ download' = [ download EXCEPT !.unlinks = @ - 1, !.file = "absent" ]
    /\ UNCHANGED <<pageVars, cubemap>>

(***************************************************************************)
(* The asset tools: the converter page (cubemap_generator.html)            *)
(***************************************************************************)
\* const faceNames, const directions (in 1e-4)
faceNames == <<"px", "nx", "py", "ny", "pz", "nz">>
directions ==
    << <<10000, 0, 0>>, <<-10000, 0, 0>>, <<0, 10000, 0>>,
       <<0, -10000, 0>>, <<0, 0, 10000>>, <<0, 0, -10000>> >>

\* a x b
Cross(a, b) ==
    << a[2] * b[3] - a[3] * b[2], a[3] * b[1] - a[1] * b[3], a[1] * b[2] - a[2] * b[1] >>

\* camera.up
Up == <<0, 10000, 0>>

\* a lookAt that takes every target as it is
LookAtExactly(position, target) == VSub(target, position)

\* camera.lookAt(target) of three.js 0.132.2: the direction the camera looks
\* along afterwards, not normalised.  Matrix4.lookAt takes z = eye - target
\* and, when z is parallel to up, adds 0.0001 to z.z before it builds the
\* rotation.
LookAt(position, target) ==
    LET z == VSub(position, target)
        tilted == IF Cross(Up, z) = <<0, 0, 0>> THEN VAdd(z, <<0, 0, 1>>) ELSE z
    IN  <<-tilted[1], -tilted[2], -tilted[3]>>

\* the converter page after its script has run: the panorama is requested,
\* the camera at the origin looks along -Z
NoCubemap ==
    [ texture |-> "pending",        \* "pending" | "loaded" | "failed"
      listeners |-> 0,              \* click listeners on the download button
      clicks |-> 0,
      size |-> <<800, 600>>,        \* renderer size
      view |-> <<0, 0, -10000>>,    \* the direction the camera looks along
      downloads |-> <<>> ]          \* the downloads produced, in order

\* the body of the loop of generateCubemap for face i, at renderer size sz
Face(i, sz) ==
    [ name |-> faceNames[i], position |-> <<0, 0, 0>>,
      view |-> LookAt(<<0, 0, 0>>, directions[i]), size |-> sz ]

\* generateCubemap: six renders, each followed by link.click()
GenerateCubemap(c) ==
    [ c EXCEPT !.downloads = @ \o [ i \in 1..6 |-> Face(i, c.size) ],
               !.view = LookAt(<<0, 0, 0>>, directions[6]) ]

\* the callback of loader.load: the sphere is added and the click listener
\* registered
PanoramaLoaded ==
    /\ cubemap.texture = "pending"
    /\ cubemap' = [ cubemap EXCEPT !.texture = "loaded", !.listeners = @ + 1 ]
    /\ UNCHANGED <<pageVars, download>>

\* the panorama cannot be fetched: loader.load has no error callback
PanoramaFailed ==
    /\ cubemap.texture = "pending"
    /\ cubemap' = [ cubemap EXCEPT !.texture = "failed" ]
    /\ UNCHANGED <<pageVars, download>>

\* a click on the download button
Click ==
    /\ cubemap.clicks < MaxClicks
    /\ cubemap' =
          IF cubemap.listeners > 0
          THEN GenerateCubemap([ cubemap EXCEPT !.clicks = @ + 1 ])
          ELSE [ cubemap EXCEPT !.clicks = @ + 1 ]
    /\ UNCHANGED <<pageVars, download>>

\* the converter's resize listener
ConverterResize(sz) ==
    /\ sz # cubemap.size
    /\ cubemap' = [ cubemap EXCEPT !.size = sz ]
    /\ UNCHANGED <<pageVars, download>>

(***************************************************************************)
(* Specification                                                           *)
(***************************************************************************)
\* document.readyState once the document has been parsed
Parsed == {"interactive"}
\* document.readyState at any time of the page load
ReadyStates == {"loading", "interactive"}

\* the state when the script has been evaluated up to its last block, in an
\* environment drawn from the given sets
Loaded(versions, webgls, loadings, absents, windows, readyStates) ==
    /\ version \in versions
    /\ readyState \in readyStates
    /\ reusesAttribute \in BOOLEAN
    /\ webgl \in webgls
    /\ loadingPresent \in loadings
    /\ missing \in absents
    /\ window \in windows
    /\ phase = "loading"
    /\ sunSimulationLoaded = FALSE
    /\ sunSimulationError = "null"
    /\ loadingDiv = IF loadingPresent THEN "shown" ELSE "none"
    /\ loopStarted = FALSE
    /\ resizeListener = FALSE
    /\ pending = {}
    /\ page = NoPage
    /\ loadingText = IF loadingPresent THEN "Loading" ELSE "none"
    /\ now = 0
    /\ frames = 0
    /\ sunRotation = [ x |-> 0, y |-> 0 ]
    /\ coronaRotation = [ y |-> 0, z |-> 0 ]
    /\ starsRotation = 0
    /\ uTime = [ sun |-> 0, corona |-> 0 ]
    /\ planets = [ p \in Planets |-> [ angle |-> 0, position |-> BuiltPosition(p), rotationY |-> 0 ] ]
    /\ shootingStars = [ i \in Stars |-> NewStar ]
    /\ resetInFrame = {}
    /\ trimmedInFrame = {}
    /\ lastDelta = 0
    /\ material = <<>>
    /\ texture = [ f \in Textures |-> "unrequested" ]
    /\ background = "none"
    /\ presented = "nothing"
    /\ lastFault = FALSE
    /\ faulted = FALSE
    /\ uncaught = {}
    /\ camera = [ aspect |-> 0 ]
    /\ rendererSize = <<0, 0>>
    /\ pixelRatio = 0
    /\ composerSize = <<0, 0>>
    /\ bloomResolution = <<0, 0>>
    /\ repeats = 0
    /\ params = <<>>
    /\ bound = <<>>
    /\ coronaScale = 0
    /\ geometry = <<>>
    /\ disposals = <<>>
    /\ changes = 0
    /\ download = NoDownload
    /\ cubemap = NoCubemap

\* Frames and resizes: the current page with every file in place, started
\* at the end of the script.  After such a start the fallback timer finds one
\* of the two flags set and does nothing (SpecStartup has the timer); this
\* specification and the ones for assets, controls, bloom and events end
\* before it fires.
Init == Loaded({"current"}, {TRUE}, {TRUE}, {{}}, {OpeningWindow}, Parsed)

Next ==
    \/ StartImmediately
    \/ \E dt \in Deltas, fault \in BOOLEAN : Animate(dt, fault)
    \/ \E w \in WindowStates : Resize(w)

Spec == Init /\ [][Next]_vars

\* Startup: both revisions of the page, with and without WebGL and the
\* loading element, the script evaluated before or after the document was
\* parsed, the two callbacks in either order.
InitStartup ==
    Loaded(Versions, BOOLEAN, BOOLEAN, {{}}, {OpeningWindow}, ReadyStates)

NextStartup ==
    \/ StartImmediately
    \/ AwaitDOMContentLoaded
    \/ DOMContentLoaded
    \/ FallbackTimer

SpecStartup == InitStartup /\ [][NextStartup]_vars

\* Startup under the browser's scheduling: the script runs to its end, the
\* document finishes parsing and fires DOMContentLoaded, the timer fires.
\* the script has not reached its last block
ScriptRunning == phase = "loading" /\ pending = {}
\* the last block of the script, whichever branch it takes
ScriptEnds == StartImmediately \/ AwaitDOMContentLoaded

\* Weak fairness of the end of the script and of each registered callback,
\* WF_vars(ScriptEnds), WF_vars(DOMContentLoaded) and WF_vars(FallbackTimer),
\* with their ENABLED written out: the end of the script is enabled exactly
\* while ScriptRunning holds, a callback exactly while it is pending, and each
\* of these steps changes `pending`.
SpecStartupFair ==
    /\ InitStartup
    /\ [][NextStartup]_vars
    /\ ([]<>~ScriptRunning \/ []<><<ScriptEnds>>_vars)
    /\ ([]<>("DOMContentLoaded" \notin pending) \/ []<><<DOMContentLoaded>>_vars)
    /\ ([]<>("timer" \notin pending) \/ []<><<FallbackTimer>>_vars)

\* Texture fetches: both revisions of the page, with and without WebGL, with
\* at most one texture file absent; frames come after a pause of the page.
InitAssets ==
    Loaded(Versions, BOOLEAN, {TRUE}, { m \in SUBSET Textures : Cardinality(m) <= 1 },
           {OpeningWindow}, Parsed)

NextAssets ==
    \/ StartImmediately
    \/ \E fault \in BOOLEAN : Animate(30, fault)
    \/ \E f \in Textures : TextureLoaded(f)
    \/ \E f \in Textures : TextureFailed(f)

SpecAssets == InitAssets /\ [][NextAssets]_vars

\* The control panel: both revisions of the page, between two frames.
InitControls ==
    Loaded(Versions, {TRUE}, {TRUE}, {{}}, {OpeningWindow}, Parsed)

NextControls ==
    \/ StartImmediately
    \/ \E c \in ControlNames : \E v \in ControlValues(c) : ControlChange(c, v)

SpecControls == InitControls /\ [][NextControls]_vars

\* Frames between control changes: the current page; every control is moved
\* to its largest value, frames come after a pause of the page.
Largest(c) ==
    IF c \in NumericNames THEN NumericControls[c].max
    ELSE IF c \in ColourNames THEN <<2550, 2550, 2550>>
    ELSE IF c = "sunSegments" THEN 256
    ELSE 128

InitBloom ==
    Loaded({"current"}, {TRUE}, {TRUE}, {{}}, {OpeningWindow}, Parsed)

\* the controls that write the bloom pass, rebuild a mesh or recolour a
\* material
RenderControls ==
    {"bloomStrength", "bloomRadius", "bloomThreshold",
     "sunSegments", "coronaSegments", "sunBaseColor", "coronaColor"}

NextBloom ==
    \/ StartImmediately
    \/ \E c \in RenderControls : ControlChange(c, Largest(c))
    \/ \E fault \in BOOLEAN : Animate(30, fault)

SpecBloom == InitBloom /\ [][NextBloom]_vars

\* The animation loop under the browser's scheduling: a pending
\* requestAnimationFrame callback is eventually called.
InitLoop == Loaded({"current"}, {TRUE}, {TRUE}, {{}}, {OpeningWindow}, Parsed)

\* a regular frame, or a frame after a pause of the page
LoopFrame == \E dt \in {10, 30}, fault \in BOOLEAN : Animate(dt, fault)

NextLoop ==
    \/ StartImmediately
    \/ LoopFrame

\* a callback of the loop is pending and the run has frames left
FramePending == loopStarted /\ frames < MaxFrames

\* Weak fairness of the frame, WF_vars(LoopFrame), with its ENABLED written
\* out: LoopFrame is enabled exactly when FramePending holds, and every
\* LoopFrame step advances the clock.
SpecLoop ==
    /\ InitLoop
    /\ [][NextLoop]_vars
    /\ ([]<>~FramePending \/ []<><<LoopFrame>>_vars)

\* The orbit updater as a function of time: the planets.forEach block of
\* animate, applied to the planets at sampled values of performance.now().
SampleTimes == {0, 1, 100, 327, 400, 654, 800, 982, 1200, 1309, 2000, 4000}

OrbitUpdate(t) ==
    /\ frames < MaxFrames
    /\ frames' = frames + 1
    /\ now' = t
    /\ planets' = [ p \in Planets |-> UpdatePlanet(planets[p], p, t) ]
    /\ UNCHANGED <<sunRotation, coronaRotation, starsRotation, uTime, shootingStars,
                   resetInFrame, trimmedInFrame, lastDelta, presented, lastFault, faulted>>
    /\ UNCHANGED <<envVars, startVars, assetVars, sizeVars, panelVars, uncaught>>

InitOrbit ==
    Loaded(Versions, {TRUE}, {TRUE}, {{}}, {OpeningWindow}, Parsed)

NextOrbit == \E t \in SampleTimes : OrbitUpdate(t)

SpecOrbit == InitOrbit /\ [][NextOrbit]_vars

\* Events between frames: the current page, resized, its controls moved to
\* their largest values, frames after a pause of the page.
InitEvents ==
    Loaded({"current"}, {TRUE}, {TRUE}, {{}}, {OpeningWindow}, Parsed)

EventControls == {"coronaSize", "sunSegments"}

NextEvents ==
    \/ StartImmediately
    \/ \E fault \in BOOLEAN : Animate(30, fault)
    \/ \E w \in WindowStates : Resize(w)
    \/ ResizeAgain
    \/ \E c \in EventControls : ControlChange(c, Largest(c))

SpecEvents == InitEvents /\ [][NextEvents]_vars

\* One call of downloadFile, with or without an earlier file at the
\* destination, against a server and a file system that may fail.
InitDownload == Loaded({"current"}, {TRUE}, {TRUE}, {{}}, {OpeningWindow}, Parsed)

NextDownload ==
    \/ \E existing \in {"absent", "old"} : DownloadFile(existing)
    \/ StreamOpens
    \/ StreamOpenFails
    \/ \E status \in Statuses : Response(status)
    \/ RequestError
    \/ Data
    \/ WriteFails
    \/ ResponseEnds
    \/ Finish
    \/ UnlinkDone

SpecDownload == InitDownload /\ [][NextDownload]_vars

\* The converter page: the panorama loads or fails, the button is clicked and
\* the window resized in any order.
ConverterSizes == { <<800, 600>>, <<1024, 1024>>, <<400, 800>> }

InitCubemap == Loaded({"current"}, {TRUE}, {TRUE}, {{}}, {OpeningWindow}, Parsed)

NextCubemap ==
    \/ PanoramaLoaded
    \/ PanoramaFailed
    \/ Click
    \/ \E sz \in ConverterSizes : ConverterResize(sz)

SpecCubemap == InitCubemap /\ [][NextCubemap]_vars

(***************************************************************************)
(* Properties                                                              *)
(***************************************************************************)
\* a step that is one invocation of animate after the one initThreeJS makes
FrameStep == frames >= 1 /\ frames' = frames + 1

\* C1: at the end of every frame each star's trail history holds at most
\* trailLength points, and the trail of a star that was reset in the frame
\* holds none.
C1_TrailWithinCapacity ==
    \A i \in Stars :
        /\ Len(shootingStars[i].trailPositions) <= trailLength
        /\ i \in resetInFrame => Len(shootingStars[i].trailPositions) = 0

\* C1 witness: a star whose full trail was shifted and which was then reset,
\* in one frame.
C1_Witness ==
    \E i \in Stars :
        /\ i \in trimmedInFrame \cap resetInFrame
        /\ shootingStars[i].trailPositions = <<>>

\* C2 as stated: over every frame in which a star is not reset, its life
\* grows strictly, whatever the clock delta.
C2_LifeStrictlyIncreases ==
    [][ FrameStep =>
          \A i \in Stars :
              i \notin resetInFrame' => shootingStars'[i].life > shootingStars[i].life ]_vars

\* C2 amended: over every frame a star that is not reset ages by exactly the
\* frame's clock delta (so its life grows strictly when the delta is positive
\* and stays when the delta is 0), and a star that is reset has life 0.
C2_LifeAdvancesByDelta ==
    [][ FrameStep =>
          \A i \in Stars :
              /\ lastDelta' >= 0
              /\ i \notin resetInFrame' =>
                    /\ shootingStars'[i].life = shootingStars[i].life + lastDelta'
                    /\ (lastDelta' > 0 => shootingStars'[i].life > shootingStars[i].life)
                    /\ (lastDelta' = 0 => shootingStars'[i].life = shootingStars[i].life)
              /\ i \in resetInFrame' => shootingStars'[i].life = 0 ]_vars

\* C2 witness: a frame with clock delta 0 has passed over a star that had
\* aged before and was not reset.
C2_Witness ==
    /\ frames >= 3
    /\ lastDelta = 0
    /\ \E i \in Stars : i \notin resetInFrame /\ shootingStars[i].life > 0

\* C3: in every frame a star is reset exactly when, after the integration
\* step, its life exceeds maxLife or a coordinate lies outside
\* +-1.5 * starFieldRadius; a reset star has life 0, an empty trail, lies on
\* the plane x = -1.2 * starFieldRadius and moves with speed shootingStarSpeed
\* toward a point of the plane x = +1.2 * starFieldRadius; any other star
\* keeps the position, velocity, life and trail the integration step gave it.
C3_ResetPolicy ==
    [][ FrameStep =>
          \A i \in Stars :
              LET old == shootingStars[i]
                  new == shootingStars'[i]
                  dt == lastDelta'
                  p == <<old.position[1] + old.velocity[1] * dt,
                         old.position[2] + old.velocity[2] * dt,
                         old.position[3] + old.velocity[3] * dt>>
                  life == old.life + dt
                  limit == (15 * starFieldRadius) \div 10
                  edge == (12 * starFieldRadius) \div 10
                  outside == \E k \in 1..3 : p[k] > limit \/ p[k] < -limit
              IN  /\ i \in resetInFrame' <=> (life > old.maxLife \/ outside)
                  /\ i \in resetInFrame' =>
                        /\ new.life = 0
                        /\ new.trailPositions = <<>>
                        /\ new.position[1] = -edge
                        /\ Dot(new.velocity, new.velocity) = shootingStarSpeed * shootingStarSpeed
                        /\ new.velocity[1] > 0
                        \* the line of flight meets the plane x = +edge at a
                        \* point whose y and z lie in the star field
                        /\ \A k \in 2..3 :
                              LET hit == new.position[k] * new.velocity[1]
                                           + 2 * edge * new.velocity[k]
                              IN  /\ hit <= starFieldRadius * new.velocity[1]
                                  /\ hit >= -starFieldRadius * new.velocity[1]
                  /\ i \notin resetInFrame' =>
                        /\ new.position = p
                        /\ new.velocity = old.velocity
                        /\ new.life = life
                        /\ new.maxLife = old.maxLife
                        /\ Len(new.trailPositions) >= 1
                        /\ new.trailPositions[Len(new.trailPositions)] = p
                        /\ \A k \in 1..(Len(new.trailPositions) - 1) :
                              new.trailPositions[k] =
                                 old.trailPositions[k + Len(old.trailPositions) + 1
                                                      - Len(new.trailPositions)] ]_vars

\* C3 witness: the fourth or a later frame has reset a star.
C3_Witness ==
    /\ frames >= 4
    /\ \E i \in Stars : i \in resetInFrame /\ shootingStars[i].life = 0

C5_FallbackRender ==
    loopStarted => (presented = IF lastFault THEN "direct" ELSE "bloom")

\* C6 as stated: a planet whose texture fetch failed renders with the
\* flat-colour fallback material.
C6_FallbackMaterial ==
    loopStarted =>
        \A p \in Planets :
            texture[planetsData[p].texture] = "failed" => material[<<"planet", p>>] = "fallback"

\* C7: startup and frames do not depend on the texture fetches.  Startup
\* fails only without WebGL or when the render pipeline raised in the first
\* frame, never on a loader; with WebGL and no raise it sets
\* sunSimulationLoaded while every requested texture is still pending or has
\* settled either way; a frame presents its image unless the pipeline raised
\* in it, and nothing else escapes a frame.
C7_TexturesNeverBlock ==
    /\ sunSimulationError \in {"null", "WebGLRenderer", "render"}
    /\ sunSimulationError = "render" => faulted
    /\ (phase # "loading" /\ webgl /\ ~faulted) => sunSimulationLoaded
    /\ sunSimulationLoaded => (phase = "running" /\ loopStarted)
    /\ (loopStarted /\ ~lastFault) => presented = "bloom"
    /\ uncaught # {} => faulted

\* C7 witness: the page is loaded and has rendered a frame through the
\* composer while one texture fetch has failed and another is pending.
C7_Witness ==
    /\ sunSimulationLoaded
    /\ frames >= 2
    /\ presented = "bloom"
    /\ \E f \in Textures : texture[f] = "failed"
    /\ \E f \in Textures : texture[f] = "pending"

\* C8 as stated: no onChange callback of a control raises.
C8_NoControlThrows == uncaught \cap ControlNames = {}

\* C9 as stated: once the panel is built, every numeric control's parameter
\* and bound property lie within the control's [min, max].
C9_WithinRange ==
    loopStarted =>
        \A c \in NumericNames :
            /\ NumericControls[c].min <= params[c] /\ params[c] <= NumericControls[c].max
            /\ NumericControls[c].min <= bound[c] /\ bound[c] <= NumericControls[c].max

\* C10: a resize event on the loaded page sets the camera aspect to
\* width / height and the renderer size, composer size and bloom resolution
\* to the new window size, and changes no transform and no animation state.
C10_ResizeEffect ==
    [][ (resizeListener /\ window' # window) =>
          /\ camera'.aspect = (window'.innerWidth * 1000) \div window'.innerHeight
          /\ rendererSize' = <<window'.innerWidth, window'.innerHeight>>
          /\ composerSize' = <<window'.innerWidth, window'.innerHeight>>
          /\ bloomResolution' = <<window'.innerWidth, window'.innerHeight>>
          /\ planets' = planets
          /\ shootingStars' = shootingStars
          /\ sunRotation' = sunRotation
          /\ coronaRotation' = coronaRotation
          /\ starsRotation' = starsRotation ]_vars

\* C10 witness: after some frames the loaded page has been resized to a
\* window of another shape, and the stars have moved.
C10_Witness ==
    /\ resizeListener
    /\ frames >= 3
    /\ window # OpeningWindow
    /\ composerSize = <<window.innerWidth, window.innerHeight>>
    /\ camera.aspect # 1333
    /\ \E i \in Stars : shootingStars[i].life > 0

\* a step that is one run of initThreeJS
InitStep == page'.attempts = page.attempts + 1

\* C11: a run of initThreeJS that raises (the renderer cannot be created, the
\* first frame's render raises, or the loading element cannot be removed)
\* lets nothing escape, stores the error in window.sunSimulationError, leaves
\* window.sunSimulationLoaded as it was, and writes the error into the
\* loading element when there is one.
C11_InitErrorCaught ==
    [][ (InitStep /\ (~webgl \/ lastFault' \/ (loadingPresent /\ loadingDiv = "removed"))) =>
          /\ uncaught' = uncaught
          /\ sunSimulationError' =
                IF ~webgl THEN "WebGLRenderer"
                ELSE IF lastFault' THEN "render" ELSE "removeChild"
          /\ sunSimulationLoaded' = sunSimulationLoaded
          /\ loadingPresent => loadingText' = sunSimulationError' ]_vars

\* C11 witness: a run has failed in its first render on a page with a
\* loading element, which now shows the error.
C11_Witness ==
    /\ phase = "failed"
    /\ loadingPresent
    /\ sunSimulationError = "render"
    /\ loadingText = "render"
    /\ loadingDiv = "error"
    /\ ~sunSimulationLoaded

\* C12: on a page without a loading element every run of initThreeJS with
\* WebGL and no raising render completes, with sunSimulationLoaded = true and
\* sunSimulationError = null; a failing run fails for the renderer or the
\* render only, never on the absent element, and nothing escapes; no loading
\* display exists at any time.
C12_AbsentLoadingElement ==
    ~loadingPresent =>
        /\ loadingDiv = "none" /\ loadingText = "none"
        /\ uncaught = {}
        /\ sunSimulationError \in {"null", "WebGLRenderer", "render"}
        /\ (page.attempts >= 1 /\ webgl /\ ~faulted) =>
              /\ sunSimulationLoaded
              /\ sunSimulationError = "null"
              /\ page.completions = page.attempts
        /\ (page.attempts >= 1 /\ ~webgl) =>
              (~sunSimulationLoaded /\ sunSimulationError = "WebGLRenderer")

\* C12 witness: initThreeJS has completed on a page without a loading
\* element.
C12_Witness ==
    /\ ~loadingPresent
    /\ page.completions >= 1
    /\ sunSimulationLoaded
    /\ sunSimulationError = "null"
    /\ loadingDiv = "none"

\* C19 as stated: in every ordering of the callbacks initThreeJS completes
\* at most once, and the page has at most one canvas, one GUI panel, one
\* resize listener and one animation loop.
C19_SingleInitialisation ==
    /\ page.completions <= 1
    /\ page.canvases <= 1
    /\ page.panels <= 1
    /\ page.listeners <= 1
    /\ page.loops <= 1

\* C20 as stated: sunSimulationLoaded = true and sunSimulationError # null
\* never hold together.
C20_LoadedExcludesError ==
    ~(sunSimulationLoaded /\ sunSimulationError # "null")

\* C13 as stated: at the render of a frame, every star that was reset in the
\* frame has an empty trail history and an empty position buffer in its
\* trail geometry.
C13_ResetClearsTrail ==
    \A i \in resetInFrame :
        /\ shootingStars[i].trailPositions = <<>>
        /\ shootingStars[i].trailGeometry = <<>>

\* C14: a run of the resize listener at the size the window already had
\* leaves camera aspect, renderer size, pixel ratio, composer size and bloom
\* resolution as they were, and they are the values one run at that size
\* gives.
C14_ResizeIdempotent ==
    [][ repeats' = repeats + 1 =>
          /\ window' = window
          /\ camera' = camera
          /\ rendererSize' = rendererSize
          /\ pixelRatio' = pixelRatio
          /\ composerSize' = composerSize
          /\ bloomResolution' = bloomResolution
          /\ camera'.aspect = (window.innerWidth * 1000) \div window.innerHeight
          /\ rendererSize' = <<window.innerWidth, window.innerHeight>>
          /\ pixelRatio' = IF window.devicePixelRatio < 2 THEN window.devicePixelRatio ELSE 2
          /\ composerSize' = <<window.innerWidth, window.innerHeight>>
          /\ bloomResolution' = <<window.innerWidth, window.innerHeight>> ]_vars

\* C14 witness: the window was resized and the listener has then run twice
\* more at the new size.
C14_Witness ==
    /\ resizeListener
    /\ repeats = 2
    /\ window # OpeningWindow
    /\ composerSize = <<window.innerWidth, window.innerHeight>>

\* C15: a frame after startup changes no size and no control-panel state,
\* and a step that runs the resize listener or a control callback changes
\* nothing a frame writes: every step after startup is a whole frame, a whole
\* listener run or a whole callback.
C15_FramesUninterrupted ==
    [][ /\ FrameStep =>
             /\ UNCHANGED <<window, camera, rendererSize, pixelRatio, composerSize,
                            bloomResolution, repeats>>
             /\ UNCHANGED <<params, bound, coronaScale, geometry, disposals, changes>>
        /\ (~InitStep /\ (\/ window' # window \/ repeats' # repeats \/ changes' # changes
                          \/ camera' # camera \/ pixelRatio' # pixelRatio
                          \/ params' # params \/ bound' # bound)) =>
             UNCHANGED <<now, frames, sunRotation, coronaRotation, starsRotation, uTime,
                         planets, shootingStars, resetInFrame, trimmedInFrame, lastDelta,
                         presented, lastFault, faulted, material>> ]_vars

\* C15 witness: frames have run after a resize to a window with a high
\* pixel ratio and after a control change.
C15_Witness ==
    /\ frames >= 3
    /\ window.devicePixelRatio = 3
    /\ pixelRatio = 2
    /\ changes >= 1
    /\ presented = "bloom"

\* C16: for every row of the body table the elliptical update at angle 0
\* gives exactly (orbitalRadius, 0, 0), the position the scene builder sets;
\* so does an update of the planets at time 0.
C16_OrbitStartsAtBuiltPosition ==
    /\ \A p \in DOMAIN planetsData :
          /\ Ellipse(planetsData[p].orbitalRadius, planetsData[p].eccentricity,
                     TiltAngle(p), 0) = <<planetsData[p].orbitalRadius, 0, 0>>
          /\ BuiltPosition(p) = <<planetsData[p].orbitalRadius, 0, 0>>
    /\ (frames >= 1 /\ now = 0) =>
          \A p \in Planets :
              /\ planets[p].angle = 0
              /\ planets[p].position = <<planetsData[p].orbitalRadius, 0, 0>>

\* C16 witness: the planets have been updated at a later time and then at
\* time 0, and are back at their built positions.
C16_Witness ==
    /\ version = "current"
    /\ frames >= 2
    /\ now = 0
    /\ \A p \in Planets : planets[p].position = BuiltPosition(p)

\* (x/a)^2 + (z/b)^2 in 1e-8, for a position written by the elliptical updater
EllipseSum(pos, a, e) ==
    LET u == (pos[1] * 10000) \div a
        v == (pos[3] * 10000) \div SemiMinor(a, e)
    IN  u * u + v * v

LastOf(seq, n) == SubSeq(seq, Len(seq) - n + 1, Len(seq))

\* C18: with k updates since a star's last reset, its trail history is
\* exactly the positions after the last min(k, trailLength) of them, oldest
\* first and the current position last; for k >= 1 these are also the points
\* the frame handed to the trail geometry.
C18_TrailIsRecentPath ==
    loopStarted =>
        \A i \in Stars :
            LET s == shootingStars[i]
                k == Len(s.flown)
                m == IF k < trailLength THEN k ELSE trailLength
            IN  /\ s.trailPositions = LastOf(s.flown, m)
                /\ Len(s.trailPositions) = m
                /\ k >= 1 =>
                      /\ s.trailGeometry = s.trailPositions
                      /\ s.trailPositions[m] = s.position
                /\ (k = 0) = (i \in resetInFrame)

\* C18 witness: a star has flown more updates since its reset than the
\* trail holds, through at least two different positions.
C18_Witness ==
    \E i \in Stars :
        LET s == shootingStars[i]
        IN  /\ Len(s.flown) > trailLength
            /\ Len(s.trailPositions) = trailLength
            /\ s.trailPositions[1] # s.trailPositions[trailLength]
            /\ s.trailPositions[1] # s.flown[1]

\* C21: an invocation of animate leaves exactly the one loop it belongs to
\* pending, whether or not its render raised, and once the loop has started
\* every frame short of the last modelled one is followed by another frame.
C21_LoopNeverStops ==
    /\ [][ frames' = frames + 1 =>
              /\ loopStarted'
              /\ (frames >= 1 => page'.loops = page.loops) ]_vars
    /\ loopStarted ~> (frames = MaxFrames)

\* C21 witness: the render of the first frame and of a later frame raised,
\* and frames have run after them.
C21_Witness ==
    /\ frames = MaxFrames
    /\ sunSimulationError = "render"
    /\ "animate" \in uncaught
    /\ ~lastFault
    /\ loopStarted

\* C22: whatever document.readyState was when the script ran, initThreeJS is
\* eventually invoked and the page eventually has sunSimulationLoaded = true
\* or sunSimulationError # null, and keeps it; the fallback timer invokes
\* initThreeJS exactly when neither held at the moment it fired.
C22_StartupSettles ==
    /\ [][ ("timer" \in pending /\ "timer" \notin pending') =>
              (InitStep <=> (~sunSimulationLoaded /\ sunSimulationError = "null")) ]_vars
    /\ [][ InitStep => (sunSimulationLoaded' \/ sunSimulationError' # "null") ]_vars
    /\ <>(page.attempts >= 1)
    /\ <>[](sunSimulationLoaded \/ sunSimulationError # "null")

\* C22 witness: the script ran while the document was loading, the timer
\* fired before DOMContentLoaded and ran initThreeJS, which completed.
C22_Witness ==
    /\ readyState = "loading"
    /\ pending = {"DOMContentLoaded"}
    /\ page.attempts = 1
    /\ sunSimulationLoaded
    /\ sunSimulationError = "null"

\* the rotations n invocations of animate leave: each adds its fixed step
RotationsAfter(n) ==
    [ sun |-> [ x |-> n * 100, y |-> n * 500 ],
      corona |-> [ y |-> -(n * 200), z |-> n * 100 ],
      stars |-> n * 10,
      planets |-> [ p \in Planets |-> n * planetsData[p].rotationSpeed ] ]

\* C23 as stated: the scene apart from the shooting stars is a function of
\* the elapsed time alone.  One run reaches 3 s after the first frame in a
\* single frame; every run that is at that time, after however many frames,
\* has that run's shader times, planet positions and rotations.
C23_FunctionOfTime ==
    (frames >= 2 /\ now = 32) =>
        /\ uTime = [ sun |-> now, corona |-> now ]
        /\ \A p \in Planets :
              /\ planets[p].position = OrbitPosition(BuiltPosition(p), p, now)
              /\ planets[p].rotationY = RotationsAfter(2).planets[p]
        /\ sunRotation = RotationsAfter(2).sun
        /\ coronaRotation = RotationsAfter(2).corona
        /\ starsRotation = RotationsAfter(2).stars

\* the controls bound to a sun or corona uniform, a bloom-pass setting or a
\* light intensity
BoundControls ==
    ControlNames \ ({"cameraDistance", "backgroundIntensity"} \cup SegmentNames)

\* the parameter store and the bound properties agree
StoreMatchesBound ==
    \A c \in BoundControls :
        IF c \in NumericNames
        THEN params[c] = bound[c]
        ELSE \A k \in 1..3 : params[c][k] * 10000 = bound[c][k] * 2550

\* C24: once the panel is built and after every control change, each
\* control bound to a uniform, a bloom setting or a light intensity has its
\* parameter equal to the bound property (the parameter over 255 per channel
\* for a colour), and a control change leaves the parameter and the bound
\* property of every other control as they were.
C24_StoreMatchesBound ==
    [][ /\ loopStarted' => StoreMatchesBound'
        /\ changes' = changes + 1 =>
              \E c \in ControlNames :
                  /\ \A o \in ControlNames \ {c} : params'[o] = params[o]
                  /\ \A o \in DOMAIN bound \ {c} : bound'[o] = bound[o] ]_vars

\* C24 witness: a colour and a bloom setting have been moved away from the
\* values they were built with.
C24_Witness ==
    /\ changes = 2
    /\ params.coronaColor = <<0, 0, 0>>
    /\ bound.coronaColor = <<0, 0, 0>>
    /\ params.bloomStrength = 0
    /\ bound.bloomStrength = 0

\* C25: at the render of every frame each star has 0 <= life <= maxLife,
\* every coordinate within +-1.5 * starFieldRadius, and a main material
\* opacity between 0 and 1, whatever non-negative clock deltas the frames saw.
C25_StarsWithinBounds ==
    loopStarted =>
        /\ lastDelta >= 0
        /\ \A i \in Stars :
              LET s == shootingStars[i]
                  limit == (15 * starFieldRadius) \div 10
              IN  /\ 0 <= s.life /\ s.life <= s.maxLife
                  /\ \A k \in 1..3 : -limit <= s.position[k] /\ s.position[k] <= limit
                  /\ 0 <= s.opacity /\ s.opacity <= 1000

\* C25 witness: a frame has left a star that it did not reset at exactly
\* the end of its life, fully faded.
C25_Witness ==
    \E i \in Stars :
        /\ i \notin resetInFrame
        /\ shootingStars[i].life > 0
        /\ shootingStars[i].life = shootingStars[i].maxLife
        /\ shootingStars[i].opacity = 0

\* C26 as stated: at the render of every frame, a star that holds at least
\* one trail point and was not reset in the frame has a trail material
\* opacity above 0.
C26_TrailVisible ==
    loopStarted =>
        \A i \in Stars :
            (Len(shootingStars[i].trailPositions) >= 1 /\ i \notin resetInFrame) =>
                shootingStars[i].trailOpacity > 0

\* the radius the corona is drawn with: geometry radius times mesh scale
RenderedRadius == Times(geometry.corona.radius, coronaScale)

\* C27 as stated: the corona's rendered radius is determined by the current
\* coronaSize and coronaSegments alone.  Setting coronaSegments to 128 and
\* then coronaSize to 2.0 on the built page gives 1.2 * 2.0; every state
\* with these two parameter values has that radius.
C27_RadiusFromParams ==
    (loopStarted /\ params.coronaSize = 20000 /\ params.coronaSegments = 128) =>
        RenderedRadius = Times(InitialGeometry.corona.radius, 20000)

\* C28 as stated: every sun or corona geometry that is no longer attached
\* to its mesh has been disposed of, and no geometry has been disposed of
\* more than once.
C28_GeometriesDisposedOnce ==
    loopStarted =>
        \A g \in DOMAIN disposals :
            /\ disposals[g] <= 1
            /\ g \notin {geometry.sun.id, geometry.corona.id} => disposals[g] = 1

\* C29 as stated: once downloadFile has rejected and its file operations
\* have completed, nothing is at the destination path, and resolve or reject
\* has been called exactly once.
C29_RejectLeavesNoFile ==
    (download.promise = "rejected" /\ download.stream # "opening" /\ download.unlinks = 0) =>
        /\ download.file = "absent"
        /\ download.settles = 1

====
